---- MODULE Spec2Model ----
(***************************************************************************)
(* Control-flow model of cupyx/scipy/sparse/linalg/_iterative.py: the two  *)
(* Krylov solvers cg and gmres.  The operator A, the preconditioner M and  *)
(* the dense least-squares routine are opaque collaborators: the model     *)
(* counts their applications and takes the residual norm they produce as   *)
(* an input of every iteration: a finite norm, an infinity or a NaN.  The  *)
(* storage V, H, e that gmres allocates once is modelled entry by entry    *)
(* with the time of its last write.                                        *)
(***************************************************************************)
EXTENDS Integers, Sequences, FiniteSets, TLC

VARIABLES
    args,           \* the arguments of the call, as passed by the caller
    pc,             \* position of the call in the function body
    atol,           \* local atol: the argument, then the effective tolerance
    maxiter,        \* local maxiter: the argument, then the resolved budget
    restart,        \* local restart: the argument, then min(restart, n)
    callback_type,  \* local callback_type: the argument, then the resolved one
    iters,          \* iteration counter
    resid,          \* cg: resid, gmres: r_norm; Unbound before the first assignment
    updates,        \* number of assignments to x since it was initialised
    mxver,          \* gmres: value of updates when mx was computed last
    nA,             \* applications of the operator A (matvec)
    nM,             \* applications of the preconditioner M (psolve with M given)
    nCb,            \* invocations of the callback
    Vst,            \* gmres: per column of V, when it was written last
    Hst,            \* gmres: per entry of H, when it was written last
    est,            \* gmres: per entry of e, when it was written last
    j,              \* gmres: Arnoldi loop index
    badRead,        \* gmres: a read hit storage not written in the current cycle
    nonfinite,      \* gmres: H or e holds a NaN or an infinity in the current cycle
    outcome         \* what the call produced

vars == <<args, pc, atol, maxiter, restart, callback_type, iters, resid, updates,
          mxver, nA, nM, nCb, Vst, Hst, est, j, badRead, nonfinite, outcome>>

(***************************************************************************)
(* Bounds of the model and constants of the program.                       *)
(***************************************************************************)
MaxN == 2
MaxMaxiter == 4
MaxRestart == 3
MaxNorm == 2
MaxTol == 1

DefaultMaxiterFactor == 10
DefaultRestart == 20

\* Python's None for the numeric arguments, and the unbound local resid
None == 0 - 1
Unbound == 0 - 2
\* the floating-point values of a norm that are not finite
NaN == 0 - 3
Inf == 0 - 4
Finite(v) == v >= 0
\* an absent array argument (x0=None, M=None)
Absent == <<>>

SupportedDtypes == {"f", "d", "F", "D"}

Max(a, b) == IF a >= b THEN a ELSE b
Min(a, b) == IF a <= b THEN a ELSE b

\* n = A.shape[0]
N(a) == a.Ashape[1]

NoOutcome == [kind |-> "none", exc |-> "", msg |-> "", sol |-> "", info |-> None]
Raise(exc, msg) == [kind |-> "error", exc |-> exc, msg |-> msg, sol |-> "", info |-> None]
Return(sol, info) == [kind |-> "return", exc |-> "", msg |-> "", sol |-> sol, info |-> info]
Proceed == [kind |-> "run", exc |-> "", msg |-> "", sol |-> "", info |-> None]

(***************************************************************************)
(* Setup of both solvers.                                                  *)
(***************************************************************************)
\* A.ndim != 2 or A.shape[0] != A.shape[1]
NotSquare(shape) == Len(shape) # 2 \/ shape[1] # shape[2]

\* not (v.shape == (n,) or v.shape == (n, 1))
IncompatibleVector(shape, n) == ~ (shape = <<n>> \/ shape = <<n, 1>>)

\* cg, lines 47-53
CgAtol(a_atol, tol, b_norm) ==
    IF a_atol = None
    THEN IF b_norm = 0 THEN tol ELSE tol * b_norm
    ELSE Max(a_atol, tol * b_norm)

\* gmres, lines 151-154 (reached only with b_norm # 0)
GmresAtol(a_atol, tol, b_norm) ==
    IF a_atol = None
    THEN tol * b_norm
    ELSE Max(a_atol, tol * b_norm)

\* maxiter = n * 10 when None
ResolveMaxiter(m, n) == IF m = None THEN n * DefaultMaxiterFactor ELSE m

\* restart = 20 when None; restart = min(restart, n)
ClampRestart(r, n) == Min(IF r = None THEN DefaultRestart ELSE r, n)

\* callback_type defaults to 'pr_norm'; it is None when there is no callback
ResolveCallbackType(ct, cb) ==
    IF ~cb THEN "None" ELSE IF ct = "None" THEN "pr_norm" ELSE ct

\* cg, lines 36-70: the first statement that leaves the setup, in code order
CgSetupResult(a) ==
    IF NotSquare(a.Ashape)
    THEN Raise("ValueError", "expected square matrix")
    ELSE IF a.dtype \notin SupportedDtypes
    THEN Raise("TypeError", "unsupprted dtype")
    ELSE IF IncompatibleVector(a.bshape, N(a))
    THEN Raise("ValueError", "b has incompatible dimensins")
    ELSE IF N(a) = 0
    THEN Return("empty", 0)
    ELSE IF a.x0shape # Absent /\ IncompatibleVector(a.x0shape, N(a))
    THEN Raise("ValueError", "x0 has incompatible dimensins")
    ELSE IF a.Mshape # Absent /\ a.Ashape # a.Mshape
    THEN Raise("ValueError", "matrix and preconditioner have different shapes")
    ELSE Proceed

\* variant: the zero right-hand side is not short-circuited
GmresSetupResult_NoZeroB(a) ==
    IF NotSquare(a.Ashape)
    THEN Raise("ValueError", "expected square matrix")
    ELSE IF a.dtype \notin SupportedDtypes
    THEN Raise("TypeError", "unsupprted dtype")
    ELSE IF IncompatibleVector(a.bshape, N(a))
    THEN Raise("ValueError", "b has incompatible dimensins")
    ELSE IF N(a) = 0
    THEN Return("empty", 0)
    ELSE IF a.x0shape # Absent /\ IncompatibleVector(a.x0shape, N(a))
    THEN Raise("ValueError", "x0 has incompatible dimensins")
    ELSE IF (IF a.callback_type = "None" THEN "pr_norm" ELSE a.callback_type)
                \notin {"x", "pr_norm"}
    THEN Raise("ValueError", "Unknow callback_type")
    ELSE IF a.Mshape # Absent /\ a.Ashape # a.Mshape
    THEN Raise("ValueError", "matrix and preconditioner have different shapes")
    ELSE Proceed

\* gmres, lines 138-181: the first statement that leaves the setup, in code order
GmresSetupResult(a) ==
    IF NotSquare(a.Ashape)
    THEN Raise("ValueError", "expected square matrix")
    ELSE IF a.dtype \notin SupportedDtypes
    THEN Raise("TypeError", "unsupprted dtype")
    ELSE IF IncompatibleVector(a.bshape, N(a))
    THEN Raise("ValueError", "b has incompatible dimensins")
    ELSE IF N(a) = 0
    THEN Return("empty", 0)
    ELSE IF a.b_norm = 0
    THEN Return("b", 0)
    ELSE IF a.x0shape # Absent /\ IncompatibleVector(a.x0shape, N(a))
    THEN Raise("ValueError", "x0 has incompatible dimensins")
    ELSE IF (IF a.callback_type = "None" THEN "pr_norm" ELSE a.callback_type)
                \notin {"x", "pr_norm"}
    THEN Raise("ValueError", "Unknow callback_type")
    ELSE IF a.Mshape # Absent /\ a.Ashape # a.Mshape
    THEN Raise("ValueError", "matrix and preconditioner have different shapes")
    ELSE Proceed

\* psolve applies M only when M is given; otherwise it is the identity
PsolveCost(a) == IF a.Mshape = Absent THEN 0 ELSE 1
CallbackCost(a) == IF a.callback THEN 1 ELSE 0

(***************************************************************************)
(* The arguments a call can receive.  Three families: one varies the       *)
(* shapes, the dtype and the callback configuration, one the iteration     *)
(* budget, the restart length, the preconditioner and the callback, one    *)
(* the tolerances and the norm of b.                                       *)
(***************************************************************************)
AShapes(n) == {<<n, n>>, <<n, n + 1>>, <<n>>}
VecShapes(n) == {<<n>>, <<n, 1>>, <<n + 1>>}
MShapes(n) == {Absent, <<n, n>>, <<n + 1, n + 1>>}
BNorms(n) == IF n = 0 THEN {0} ELSE 0..MaxNorm
CallbackTypes(s) == IF s = "gmres" THEN {"None", "x", "pr_norm", "bad"} ELSE {"None"}
Restarts(s) == IF s = "gmres" THEN {None} \cup 0..MaxRestart ELSE {None}
Solvers == {"cg", "gmres"}

Args(s, Ash, dt, bsh, bn, x0sh, Msh, cb, ct, tol, at, mi, rs) ==
    [solver |-> s, Ashape |-> Ash, dtype |-> dt, bshape |-> bsh, b_norm |-> bn,
     x0shape |-> x0sh, Mshape |-> Msh, callback |-> cb, callback_type |-> ct,
     tol |-> tol, atol |-> at, maxiter |-> mi, restart |-> rs]

ShapeArgs ==
    UNION { { Args(s, Ash, dt, bsh, bn, x0sh, Msh, cb, ct, 1, None, 1, None) :
                Ash \in AShapes(n), dt \in {"d", "i"}, bsh \in VecShapes(n),
                bn \in BNorms(n) \cap {0, 1}, x0sh \in {Absent} \cup VecShapes(n),
                Msh \in MShapes(n), cb \in BOOLEAN, ct \in CallbackTypes(s) } :
            s \in Solvers, n \in 0..MaxN }

IterArgs ==
    UNION { { Args(s, <<n, n>>, "d", <<n>>, 1, Absent, Msh, cb, ct, 1, None, mi, rs) :
                Msh \in {Absent, <<n, n>>}, cb \in BOOLEAN,
                ct \in CallbackTypes(s) \ {"bad"},
                mi \in {None} \cup 0..MaxMaxiter, rs \in Restarts(s) } :
            s \in Solvers, n \in 1..MaxN }

TolArgs ==
    { Args(s, <<1, 1>>, "d", <<1>>, bn, Absent, Absent, FALSE, "None", tol, at, 2, None) :
        s \in Solvers, bn \in 0..MaxNorm, tol \in 0..MaxTol,
        at \in {None} \cup 0..MaxTol }

Init ==
    /\ args \in ShapeArgs \cup IterArgs \cup TolArgs
    /\ pc = "call"
    /\ atol = args.atol
    /\ maxiter = args.maxiter
    /\ restart = args.restart
    /\ callback_type = args.callback_type
    /\ iters = 0
    /\ resid = Unbound
    /\ updates = 0
    /\ mxver = 0
    /\ nA = 0
    /\ nM = 0
    /\ nCb = 0
    /\ Vst = <<>>
    /\ Hst = <<>>
    /\ est = <<>>
    /\ j = 0
    /\ badRead = FALSE
    /\ nonfinite = FALSE
    /\ outcome = NoOutcome

\* a raise or a return ends the call
Finish(o) ==
    /\ outcome' = o
    /\ pc' = "done"

(***************************************************************************)
(* cg                                                                      *)
(***************************************************************************)
\* lines 36-70: validation, short-circuit, tolerance, defaults
CgSetup ==
    /\ pc = "call"
    /\ args.solver = "cg"
    /\ LET res == CgSetupResult(args) IN
        IF res.kind = "run"
        THEN /\ atol' = CgAtol(args.atol, args.tol, args.b_norm)
             /\ maxiter' = ResolveMaxiter(args.maxiter, N(args))
             /\ pc' = "cg_init"
             /\ UNCHANGED outcome
        ELSE /\ Finish(res)
             /\ UNCHANGED <<atol, maxiter>>
    /\ UNCHANGED <<args, restart, callback_type, iters, resid, updates, mxver,
                   nA, nM, nCb, Vst, Hst, est, j, badRead, nonfinite>>

\* lines 72-74: r = b - matvec(x); iters = 0; rho = 0
CgInitResidual ==
    /\ pc = "cg_init"
    /\ nA' = nA + 1
    /\ iters' = 0
    /\ pc' = "cg_loop"
    /\ UNCHANGED <<args, atol, maxiter, restart, callback_type, resid, updates,
                   mxver, nM, nCb, Vst, Hst, est, j, badRead, nonfinite, outcome>>

\* lines 75-88: one pass of the loop body up to iters += 1
CgIterate ==
    /\ pc = "cg_loop"
    /\ iters < maxiter
    /\ nM' = nM + PsolveCost(args)
    /\ nA' = nA + 1
    /\ updates' = updates + 1
    /\ iters' = iters + 1
    /\ pc' = "cg_cb"
    /\ UNCHANGED <<args, atol, maxiter, restart, callback_type, resid, mxver,
                   nCb, Vst, Hst, est, j, badRead, nonfinite, outcome>>

\* lines 89-90: callback(x)
CgCallback ==
    /\ pc = "cg_cb"
    /\ nCb' = nCb + CallbackCost(args)
    /\ pc' = "cg_test"
    /\ UNCHANGED <<args, atol, maxiter, restart, callback_type, iters, resid,
                   updates, mxver, nA, nM, Vst, Hst, est, j, badRead, nonfinite, outcome>>

\* variant: strict comparison
ResidTest_Strict(rn, tolerance) == Finite(rn) /\ rn < tolerance

\* resid <= atol: false for a NaN and for an infinity (the tolerance is finite)
ResidTest(rn, tolerance) == Finite(rn) /\ rn <= tolerance

\* the norms r = r - alpha * q can have after a residual of norm rn: a NaN
\* norm means a NaN entry of r, which stays; an infinite norm can be the
\* overflow of the sum of squares of a finite r, so any norm can follow it
NextResiduals(rn) ==
    IF rn = NaN THEN {NaN}
    ELSE 0..MaxNorm \cup {Inf, NaN}

\* lines 91-93: resid = norm(r); break when resid <= atol
CgResidTest ==
    /\ pc = "cg_test"
    /\ \E rn \in NextResiduals(resid) :
        /\ resid' = rn
        /\ pc' = IF ResidTest(rn, atol) THEN "cg_exit" ELSE "cg_loop"
    /\ UNCHANGED <<args, atol, maxiter, restart, callback_type, iters, updates,
                   mxver, nA, nM, nCb, Vst, Hst, est, j, badRead, nonfinite, outcome>>

\* lines 95-99: info = 0; if iters == maxiter and not (resid <= atol): info = iters
CgResult(it, mi, rn, tolerance) ==
    IF it = mi
    THEN IF rn = Unbound
         THEN Raise("UnboundLocalError", "resid")
         ELSE IF ~ ResidTest(rn, tolerance) THEN Return("x", it) ELSE Return("x", 0)
    ELSE Return("x", 0)

\* the loop is left by its condition (line 75) or by break (line 93)
CgExit ==
    /\ \/ pc = "cg_exit"
       \/ pc = "cg_loop" /\ ~ (iters < maxiter)
    /\ Finish(CgResult(iters, maxiter, resid, atol))
    /\ UNCHANGED <<args, atol, maxiter, restart, callback_type, iters, resid,
                   updates, mxver, nA, nM, nCb, Vst, Hst, est, j, badRead, nonfinite>>

(***************************************************************************)
(* gmres                                                                   *)
(***************************************************************************)
\* variant: the shape of M is compared only after the first residual
\* mx = psolve(x); r = b - matvec(mx) has been computed
GmresSetup_LateMCheck ==
    /\ pc = "call"
    /\ args.solver = "gmres"
    /\ LET res == GmresSetupResult(args) IN
        IF res.kind = "run"
        THEN /\ atol' = GmresAtol(args.atol, args.tol, args.b_norm)
             /\ maxiter' = ResolveMaxiter(args.maxiter, N(args))
             /\ restart' = ClampRestart(args.restart, N(args))
             /\ callback_type' = ResolveCallbackType(args.callback_type, args.callback)
             /\ pc' = "g_alloc"
             /\ UNCHANGED <<outcome, nA, nM>>
        ELSE /\ Finish(res)
             /\ IF res.msg = "matrix and preconditioner have different shapes"
                THEN nA' = nA + 1 /\ nM' = nM + 1
                ELSE UNCHANGED <<nA, nM>>
             /\ UNCHANGED <<atol, maxiter, restart, callback_type>>
    /\ UNCHANGED <<args, iters, resid, updates, mxver, nCb, Vst, Hst,
                   est, j, badRead, nonfinite>>

\* lines 138-181: validation, short-circuits, tolerance, defaults
GmresSetup ==
    /\ pc = "call"
    /\ args.solver = "gmres"
    /\ LET res == GmresSetupResult(args) IN
        IF res.kind = "run"
        THEN /\ atol' = GmresAtol(args.atol, args.tol, args.b_norm)
             /\ maxiter' = ResolveMaxiter(args.maxiter, N(args))
             /\ restart' = ClampRestart(args.restart, N(args))
             /\ callback_type' = ResolveCallbackType(args.callback_type, args.callback)
             /\ pc' = "g_alloc"
             /\ UNCHANGED outcome
        ELSE /\ Finish(res)
             /\ UNCHANGED <<atol, maxiter, restart, callback_type>>
    /\ UNCHANGED <<args, iters, resid, updates, mxver, nA, nM, nCb, Vst, Hst,
                   est, j, badRead, nonfinite>>

\* lines 183-187: V = empty((n, restart)); H = zeros((restart+1, restart));
\* e = zeros((restart+1,)); iters = 0
GmresAlloc ==
    /\ pc = "g_alloc"
    /\ Vst' = [c \in 1..restart |-> "uninit"]
    /\ Hst' = [r \in 1..(restart + 1) |-> [c \in 1..restart |-> "zero"]]
    /\ est' = [r \in 1..(restart + 1) |-> "zero"]
    /\ iters' = 0
    /\ pc' = "g_top"
    /\ UNCHANGED <<args, atol, maxiter, restart, callback_type, resid, updates,
                   mxver, nA, nM, nCb, j, badRead, nonfinite, outcome>>

\* lines 189-191: mx = psolve(x); r = b - matvec(mx); r_norm = norm(r)
GmresResidual ==
    /\ pc = "g_top"
    /\ nM' = nM + PsolveCost(args)
    /\ nA' = nA + 1
    /\ mxver' = updates
    /\ \E rn \in 0..MaxNorm \cup {Inf, NaN} : resid' = rn
    /\ pc' = "g_cb"
    /\ UNCHANGED <<args, atol, maxiter, restart, callback_type, iters, updates,
                   nCb, Vst, Hst, est, j, badRead, nonfinite, outcome>>

\* variant: 'pr_norm' reports at the first check too
GmresCallbackCost_NoSkip(ct, it) ==
    IF ct = "x" THEN 1
    ELSE IF ct = "pr_norm" THEN 1
    ELSE 0

\* lines 192-195: which checks invoke the callback
GmresCallbackCost(ct, it) ==
    IF ct = "x" THEN 1
    ELSE IF ct = "pr_norm" /\ it > 0 THEN 1
    ELSE 0

GmresCallback ==
    /\ pc = "g_cb"
    /\ nCb' = nCb + GmresCallbackCost(callback_type, iters)
    /\ pc' = "g_check"
    /\ UNCHANGED <<args, atol, maxiter, restart, callback_type, iters, resid,
                   updates, mxver, nA, nM, Vst, Hst, est, j, badRead, nonfinite, outcome>>

\* variant: the budget test is off by one
GmresStop_Late(rn, tolerance, it, mi) == ResidTest(rn, tolerance) \/ it > mi

\* line 196: r_norm <= atol or iters >= maxiter
GmresStop(rn, tolerance, it, mi) == ResidTest(rn, tolerance) \/ it >= mi

\* lines 196-199: termination check, then V[:, 0] = r / r_norm; e[0] = r_norm.
\* With restart = 0 the array V has no column 0 and the assignment raises.
\* With a residual norm that is not finite, e[0] = r_norm is not finite.
GmresCheck ==
    /\ pc = "g_check"
    /\ IF GmresStop(resid, atol, iters, maxiter)
       THEN /\ pc' = "g_exit"
            /\ UNCHANGED <<Vst, est, j, nonfinite, outcome>>
       ELSE IF restart = 0
       THEN /\ Finish(Raise("IndexError", "V[:, 0]"))
            /\ UNCHANGED <<Vst, est, j, nonfinite>>
       ELSE /\ Vst' = [Vst EXCEPT ![1] = "cur"]
            /\ est' = [est EXCEPT ![1] = "cur"]
            /\ nonfinite' = ~ Finite(resid)
            /\ j' = 0
            /\ pc' = "g_arnoldi"
            /\ UNCHANGED outcome
    /\ UNCHANGED <<args, atol, maxiter, restart, callback_type, iters, resid,
                   updates, mxver, nA, nM, nCb, Hst, badRead>>

\* variant: the last basis column is not written
HasNextColumn_Short(jj, rs) == jj + 2 < rs

\* line 208: a next basis column exists
HasNextColumn(jj, rs) == jj + 1 < rs

\* lines 205-207: the entries of column j of H written in step j (rows 0..j+1)
ArnoldiWritesH(row, col, jj) == col = jj /\ row <= jj + 1

\* lines 202-209: one Arnoldi step j.  Reads V[:, j] and V[:, :j+1]; writes
\* H[:j+1, j], H[j+1, j] and, if j+1 < restart, V[:, j+1].  The column of H
\* written here is not finite when the step breaks down: the products
\* overflow, or V[:, j] holds the NaN of a division by H[j, j-1] = 0 (line 209).
GmresArnoldiStep ==
    /\ pc = "g_arnoldi"
    /\ j < restart
    /\ \E breakdown \in BOOLEAN : nonfinite' = (nonfinite \/ breakdown)
    /\ nM' = nM + PsolveCost(args)
    /\ nA' = nA + 1
    /\ badRead' = (badRead \/ \E c \in 1..(j + 1) : Vst[c] # "cur")
    /\ Hst' = [r \in 1..(restart + 1) |-> [c \in 1..restart |->
                 IF ArnoldiWritesH(r - 1, c - 1, j) THEN "cur" ELSE Hst[r][c]]]
    /\ Vst' = IF HasNextColumn(j, restart) THEN [Vst EXCEPT ![j + 2] = "cur"] ELSE Vst
    /\ j' = j + 1
    /\ UNCHANGED <<args, pc, atol, maxiter, restart, callback_type, iters, resid,
                   updates, mxver, nCb, est, outcome>>

\* storage written in the cycle that just ended belongs to an earlier cycle
Age(st) == IF st = "cur" THEN "old" ELSE st

\* a value written in an earlier cycle, or never initialised
Stale(st) == st \in {"old", "uninit"}

\* lines 213-216: lstsq(H, e) reads all of H and e and, with its default
\* check_finite=True, raises on a NaN or an infinity; otherwise x += V @ y
\* reads all of V and iters += restart
GmresUpdate ==
    /\ pc = "g_arnoldi"
    /\ ~ (j < restart)
    /\ IF nonfinite
       THEN /\ badRead' = (\/ badRead
                           \/ \E r \in 1..(restart + 1) : Stale(est[r])
                           \/ \E r \in 1..(restart + 1), c \in 1..restart :
                                  Stale(Hst[r][c]))
            /\ Finish(Raise("ValueError", "array must not contain infs or NaNs"))
            /\ UNCHANGED <<updates, iters, Vst, Hst, est>>
       ELSE /\ badRead' = (\/ badRead
                           \/ \E c \in 1..restart : Stale(Vst[c])
                           \/ \E r \in 1..(restart + 1) : Stale(est[r])
                           \/ \E r \in 1..(restart + 1), c \in 1..restart :
                                  Stale(Hst[r][c]))
            /\ updates' = updates + 1
            /\ iters' = iters + restart
            /\ Vst' = [c \in 1..restart |-> Age(Vst[c])]
            /\ Hst' = [r \in 1..(restart + 1) |-> [c \in 1..restart |-> Age(Hst[r][c])]]
            /\ est' = [r \in 1..(restart + 1) |-> Age(est[r])]
            /\ pc' = "g_top"
            /\ UNCHANGED outcome
    /\ UNCHANGED <<args, atol, maxiter, restart, callback_type, resid, mxver,
                   nA, nM, nCb, j, nonfinite>>

\* lines 218-220: info = 0; if iters == maxiter and not (r_norm <= atol): info = iters
GmresInfo(it, mi, rn, tolerance) ==
    IF it = mi /\ ~ ResidTest(rn, tolerance) THEN it ELSE 0

\* line 221: return mx, info
GmresExit ==
    /\ pc = "g_exit"
    /\ Finish(Return("mx", GmresInfo(iters, maxiter, resid, atol)))
    /\ UNCHANGED <<args, atol, maxiter, restart, callback_type, iters, resid,
                   updates, mxver, nA, nM, nCb, Vst, Hst, est, j, badRead, nonfinite>>

Next ==
    \/ CgSetup
    \/ CgInitResidual
    \/ CgIterate
    \/ CgCallback
    \/ CgResidTest
    \/ CgExit
    \/ GmresSetup
    \/ GmresAlloc
    \/ GmresResidual
    \/ GmresCallback
    \/ GmresCheck
    \/ GmresArnoldiStep
    \/ GmresUpdate
    \/ GmresExit

Spec == Init /\ [][Next]_vars

\* the interpreter runs the call to its end
FairSpec == Spec /\ WF_vars(Next)

(***************************************************************************)
(* Properties                                                              *)
(***************************************************************************)
Done == pc = "done"
IsCg == args.solver = "cg"
IsGmres == args.solver = "gmres"

\* the call came back from the iteration of gmres with (mx, info)
GmresReturnedMx == Done /\ IsGmres /\ outcome.kind = "return" /\ outcome.sol = "mx"

\* A square with a supported dtype and b of a compatible shape
FrontValid(a) ==
    /\ ~ NotSquare(a.Ashape)
    /\ a.dtype \in SupportedDtypes
    /\ ~ IncompatibleVector(a.bshape, N(a))

NoWork == nA = 0 /\ nM = 0 /\ nCb = 0

\* the norm r is at most t; a NaN, an infinity and a norm never computed are not
Within(r, t) == r >= 0 /\ r <= t

\* C1: a gmres call that reached the restart loop with maxiter >= 1 returns
\* info = 0 exactly when the final residual norm is <= the effective
\* tolerance, and otherwise a nonzero info equal to maxiter.
C1_GmresInfoIsZeroOrMaxiter ==
    (GmresReturnedMx /\ maxiter >= 1) =>
        IF Within(resid, atol)
        THEN outcome.info = 0
        ELSE outcome.info # 0 /\ outcome.info = maxiter

\* C2: a cg call that passes setup with n > 0 and maxiter >= 0 does not fail;
\* it returns status 0 if the last residual test passed and status maxiter if
\* the iteration count reached maxiter without the test passing.
C2_CgStatusIsZeroOrMaxiter ==
    (Done /\ IsCg /\ CgSetupResult(args).kind = "run" /\ maxiter >= 0) =>
        /\ outcome.kind = "return"
        /\ IF Within(resid, atol)
           THEN outcome.info = 0
           ELSE outcome.info = maxiter

\* an x0 of a shape that is neither (n,) nor (n,1), an M of another shape than
\* A, or (gmres) a callback_type other than 'x' and 'pr_norm'
InvalidSetupArgument(a) ==
    \/ a.x0shape # Absent /\ a.x0shape # <<N(a)>> /\ a.x0shape # <<N(a), 1>>
    \/ a.Mshape # Absent /\ a.Mshape # a.Ashape
    \/ a.solver = "gmres" /\ a.callback_type \notin {"None", "x", "pr_norm"}

\* C3: every call with an invalid x0, M or callback_type ends in an error and
\* never in a (solution, status) result, also when n = 0 or b is zero.
C3_InvalidArgumentRaises ==
    (Done /\ InvalidSetupArgument(args)) => outcome.kind = "error"

SetupErrors ==
    {"expected square matrix", "unsupprted dtype", "b has incompatible dimensins",
     "x0 has incompatible dimensins", "Unknow callback_type",
     "matrix and preconditioner have different shapes"}

\* C4: when a call ends in a setup error, neither A nor M has been applied and
\* the callback has not been invoked.
C4_SetupErrorBeforeAnyWork ==
    (outcome.kind = "error" /\ outcome.msg \in SetupErrors) => NoWork

\* a gmres call with a callback and a positive-norm b fails on the shape of M,
\* the last check of the setup
C4_Witness ==
    /\ Done /\ IsGmres /\ args.callback /\ args.b_norm > 0 /\ N(args) > 0
    /\ outcome.kind = "error"
    /\ outcome.msg = "matrix and preconditioner have different shapes"

\* C5: with n = 0 both solvers return (empty, 0), and gmres with n > 0 and
\* b = 0 returns (b, 0); A, M and the callback are not used.
C5_TrivialInputShortCircuits ==
    (Done /\ FrontValid(args)) =>
        /\ N(args) = 0 => outcome = Return("empty", 0) /\ NoWork
        /\ (IsGmres /\ N(args) > 0 /\ args.b_norm = 0) =>
               outcome = Return("b", 0) /\ NoWork

\* gmres returned b for a zero right-hand side of positive length
C5_Witness ==
    /\ Done /\ IsGmres /\ FrontValid(args) /\ N(args) > 0 /\ args.b_norm = 0
    /\ args.callback /\ args.Mshape = args.Ashape
    /\ outcome.sol = "b"

\* C6: with a callback, cg has invoked it once per completed iteration, after
\* the update of x and before the residual test; gmres has invoked it once per
\* termination check with 'x' (completed cycles + 1) and once per check but
\* the first with 'pr_norm' (completed cycles).
C6_CallbackCount ==
    /\ (IsCg /\ args.callback /\ pc \notin {"call", "cg_init"}
            /\ CgSetupResult(args).kind = "run") =>
        /\ updates = iters
        /\ pc = "cg_cb" => nCb = iters - 1
        /\ pc # "cg_cb" => nCb = iters
    /\ (IsGmres /\ args.callback /\ GmresSetupResult(args).kind = "run"
            /\ pc \in {"g_check", "g_arnoldi", "g_exit", "done"}) =>
        /\ callback_type = "x" => nCb = updates + 1
        /\ callback_type = "pr_norm" => nCb = updates
    /\ (IsGmres /\ args.callback /\ pc \in {"g_top", "g_cb"}) =>
        /\ callback_type = "x" => nCb = updates
        /\ callback_type = "pr_norm" => nCb = Max(updates - 1, 0)

\* gmres returned after two completed cycles with a 'pr_norm' callback
C6_Witness ==
    /\ GmresReturnedMx /\ args.callback /\ callback_type = "pr_norm"
    /\ updates = 2 /\ nCb = 2

CeilDiv(a, b) == (a + b - 1) \div b

C7_Counters ==
    /\ (IsCg /\ pc \notin {"call", "cg_init"} /\ CgSetupResult(args).kind = "run"
            /\ maxiter >= 0) =>
        iters <= maxiter /\ updates = iters
    /\ (IsGmres /\ pc \notin {"call", "g_alloc"}
            /\ GmresSetupResult(args).kind = "run") =>
        /\ restart <= N(args)
        /\ args.restart # None => restart <= args.restart
        /\ restart = N(args) \/ restart = args.restart
        /\ iters = updates * restart
        /\ pc = "g_arnoldi" => iters < maxiter
        /\ restart > 0 => updates <= CeilDiv(maxiter, restart)
    /\ (Done /\ outcome.kind = "return" /\ outcome.sol \in {"x", "mx"}) =>
        Within(resid, atol) \/ iters >= maxiter

C7_CounterStep ==
    iters' # iters =>
        /\ IsCg => iters' = iters + 1
        /\ IsGmres => iters' = iters + restart /\ updates' = updates + 1

\* C7: every call ends, and a call that returns from its loop has met the
\* tolerance or used up maxiter; cg performs at most maxiter iterations,
\* counting by one; gmres counts by min(restart, n) per completed cycle,
\* starts no cycle once the counter is >= maxiter and completes at most
\* ceil(maxiter / min(restart, n)) cycles.
C7_BoundedIteration ==
    /\ []C7_Counters
    /\ [][C7_CounterStep]_vars
    /\ <>Done

\* gmres used its whole budget of ceil(3 / 2) = 2 cycles
C7_Witness ==
    /\ GmresReturnedMx /\ maxiter = 3 /\ restart = 2 /\ updates = 2 /\ iters = 4

\* C8: gmres returns mx computed from the final x, the point whose residual
\* the last termination check compared, and info = 0 implies that this
\* residual norm is <= the effective tolerance.  (Stated for maxiter >= 1:
\* with maxiter = 0 the status maxiter is itself 0.)
C8_ReturnedPointIsChecked ==
    (GmresReturnedMx /\ maxiter >= 1) =>
        /\ mxver = updates
        /\ outcome.info = 0 => Within(resid, atol)

\* the effective tolerance as the specification words it
EffectiveTolerance(a) ==
    IF a.atol = None
    THEN IF a.b_norm = 0 THEN a.tol ELSE a.tol * a.b_norm
    ELSE IF a.atol >= a.tol * a.b_norm THEN a.atol ELSE a.tol * a.b_norm

\* C9: both solvers iterate with the same effective tolerance, tol or
\* tol * ||b|| without atol and max(atol, tol * ||b||) with it, and the
\* residual test is the non-strict residual <= tolerance.
C9_EffectiveTolerance ==
    /\ (pc # "call" /\ IsCg /\ CgSetupResult(args).kind = "run") =>
        atol = EffectiveTolerance(args)
    /\ (pc # "call" /\ IsGmres /\ GmresSetupResult(args).kind = "run") =>
        atol = EffectiveTolerance(args)
    /\ pc = "cg_exit" => Within(resid, EffectiveTolerance(args))
    /\ (pc = "cg_loop" /\ resid # Unbound) => ~ Within(resid, EffectiveTolerance(args))
    /\ pc = "g_exit" => (Within(resid, EffectiveTolerance(args)) \/ iters >= maxiter)
    /\ pc = "g_arnoldi" => ~ Within(resid, EffectiveTolerance(args))

\* cg stops on a residual equal to the tolerance, which is tol because b = 0
C9_Witness ==
    /\ pc = "cg_exit" /\ args.atol = None /\ args.b_norm = 0 /\ args.tol = 1
    /\ resid = 1 /\ atol = 1

\* the Arnoldi loop is over and the least-squares solve is next
AtSolve == pc = "g_arnoldi" /\ j = restart

\* C10: at every least-squares solve all columns of V, the entries H[i, j]
\* with i <= j+1 and e[0] were written in the current cycle, the other
\* entries of H and e are the zeros of the allocation, and no read has seen a
\* value of an earlier cycle or an uninitialised one.
C10_CycleStorageIsFresh ==
    /\ ~ badRead
    /\ AtSolve =>
        /\ \A c \in 1..restart : Vst[c] = "cur"
        /\ \A r \in 1..(restart + 1), c \in 1..restart :
               Hst[r][c] = IF r - 1 <= (c - 1) + 1 THEN "cur" ELSE "zero"
        /\ \A r \in 1..(restart + 1) : est[r] = IF r = 1 THEN "cur" ELSE "zero"

\* a second cycle with two basis vectors reaches its solve
C10_Witness ==
    /\ AtSolve /\ restart = 2 /\ updates >= 1
    /\ Hst[3][1] = "zero" /\ Vst[2] = "cur"
====
